---- MODULE Spec2Model ----
(***************************************************************************)
(* A model of the wire-decoding layer (proto.rs) and of the idle-mode      *)
(* guard (idle.rs) of the rust-mpd client.                                 *)
(*                                                                         *)
(* Text is modelled as a sequence of symbols.  A symbol is a chunk of      *)
(* characters: every protocol-significant piece (OK, ACK, the colon, the   *)
(* blank, brackets, braces) is a symbol of its own, and a run of other     *)
(* characters (a word such as changed or player) is one symbol.  Equality  *)
(* of texts is equality of sequences, a line is a text without its         *)
(* newline.                                                                *)
(***************************************************************************)
EXTENDS Integers, Sequences, FiniteSets, TLC

\* ------------------------------------------------------------------ bounds

\* Longest line source of the stream specification.
MaxLen == 3
\* Most calls made on one line source.
MaxCalls == 4
\* Most command writes attempted on one connection.
MaxCmds == 4
\* Most read failures injected into one connection.
MaxFaults == 1
\* Most elements of a tuple or slice argument.
MaxArity == 2
\* Longest text given to the quoting wrapper, in symbols.
MaxText == 5
\* Longest line given to the decoder, in symbols.
MaxLine == 5

\* ------------------------------------------------------------ value shapes

\* Result<T, E>
Ok(v) == [ok |-> TRUE, val |-> v]
Err(e) == [ok |-> FALSE, err |-> e]
\* Option<T>
None == [some |-> FALSE]
Some(v) == [some |-> TRUE, val |-> v]
\* nothing returned (a call that yields no Result), and the value () of Ok(())
Unit == [unit |-> TRUE]
UnitV == <<"()">>
\* the value of Ok(IdleGuard(..))
GuardV == <<"IdleGuard">>

\* error::Error, by kind
IoError == [kind |-> "Io", what |-> [name |-> "io"]]
ParseError(n) == [kind |-> "Parse", what |-> [name |-> n]]
BadValue(v) == [kind |-> "Parse", what |-> [name |-> "BadValue", text |-> v]]
ServerError(a) == [kind |-> "Server", what |-> a]
ProtoError(n) == [kind |-> "Proto", what |-> [name |-> n]]
NoField(f) == [kind |-> "Proto", what |-> [name |-> "NoField", field |-> f]]

\* reply::Reply
ReplyOk == [t |-> "Ok"]
ReplyPair(k, v) == [t |-> "Pair", key |-> k, value |-> v]
ReplyAck(a) == [t |-> "Ack", ack |-> a]

\* -------------------------------------------------------------------- text

Sep == <<":", " ">>
Field(k, v) == k \o Sep \o v
L_OK == <<"OK">>
L_ListOK == <<"list_OK">>
L_ACK == <<"ACK", " ", "[", "5", "@", "0", "]", " ", "{", "idle", "}", " ", "refused">>

\* Decimal numerals, and the number each denotes.
Numerals == {"0", "1", "5", "10", "20"}
NumeralValue(n) ==
  CASE n = "0" -> 0 [] n = "1" -> 1 [] n = "5" -> 5 [] n = "10" -> 10 [] n = "20" -> 20

\* Index of the first occurrence of the separator ": " in a line, 0 if none.
IndexOfSep(line) ==
  LET hits == {i \in 1..(Len(line) - 1) : line[i] = ":" /\ line[i + 1] = " "}
  IN IF hits = {} THEN 0 ELSE CHOOSE i \in hits : \A j \in hits : i <= j

\* The payload of an ACK line: [code@index] {command} message, the command
\* optional.
ParseAck(line) ==
  IF /\ Len(line) >= 8
     /\ line[2] = " " /\ line[3] = "[" /\ line[4] \in Numerals /\ line[5] = "@"
     /\ line[6] \in Numerals /\ line[7] = "]" /\ line[8] = " "
  THEN LET rest == SubSeq(line, 9, Len(line))
           named == Len(rest) >= 4 /\ rest[1] = "{" /\ rest[3] = "}" /\ rest[4] = " "
       IN Ok([code |-> NumeralValue(line[4]),
              index |-> NumeralValue(line[6]),
              command |-> IF named THEN <<rest[2]>> ELSE <<>>,
              message |-> IF named THEN SubSeq(rest, 5, Len(rest)) ELSE rest])
  ELSE Err(ParseError("BadAck"))

\* One line to one Reply, or a parse error.
Reply_from_str(line) ==
  IF line = L_OK THEN Ok(ReplyOk)
  ELSE IF Len(line) >= 1 /\ line[1] = "ACK"
  THEN LET a == ParseAck(line) IN IF a.ok THEN Ok(ReplyAck(a.val)) ELSE a
  ELSE LET i == IndexOfSep(line)
       IN IF i = 0 THEN Err(ParseError("BadPair"))
          ELSE Ok(ReplyPair(SubSeq(line, 1, i - 1), SubSeq(line, i + 2, Len(line))))

\* <u32 as FromStr>::from_str, the T of read_field and read_fields.
ParseT(v) ==
  IF Len(v) = 1 /\ v[1] \in Numerals THEN Ok(NumeralValue(v[1]))
  ELSE Err(BadValue(v))

\* ------------------------------------------------------------- line source

\* An item of a line source: a line, or a read that fails.
Line(l) == [fail |-> FALSE, text |-> l]
Fault == [fail |-> TRUE, text |-> <<>>]

\* Lines::next on source s with p items pulled.
Lines_next(s, p) ==
  IF p >= Len(s) THEN None
  ELSE Some(IF s[p + 1].fail THEN Err(IoError) ELSE Ok(s[p + 1].text))

Pulled_Ahead(s, p) == IF p >= Len(s) THEN 0 ELSE IF p + 1 >= Len(s) THEN 1 ELSE 2

\* Number of items a pull at p takes from s.
Pulled(s, p) == IF p >= Len(s) THEN 0 ELSE 1

\* Proto::read_line
read_line(s, p) ==
  LET l == Lines_next(s, p) IN IF l.some THEN l.val ELSE Err(IoError)

\* ------------------------------------------------------------------- Pairs

Pairs_next_NoAck(l) ==
  IF ~l.some THEN None
  ELSE IF ~l.val.ok THEN Some(Err(l.val.err))
  ELSE LET reply == Reply_from_str(l.val.val)
       IN IF ~reply.ok THEN Some(Err(reply.err))
          ELSE IF reply.val.t = "Pair" THEN Some(Ok(<<reply.val.key, reply.val.value>>))
          ELSE None

Pairs_next_Swapped(l) ==
  IF ~l.some THEN None
  ELSE IF ~l.val.ok THEN Some(Err(l.val.err))
  ELSE LET reply == Reply_from_str(l.val.val)
       IN IF ~reply.ok THEN Some(Err(reply.err))
          ELSE IF reply.val.t = "Pair" THEN Some(Ok(<<reply.val.value, reply.val.key>>))
          ELSE IF reply.val.t = "Ok" THEN None
          ELSE Some(Err(ServerError(reply.val.ack)))

\* Pairs::next, given what the line iterator yielded.
Pairs_next(l) ==
  IF ~l.some THEN None
  ELSE IF ~l.val.ok THEN Some(Err(l.val.err))
  ELSE LET reply == Reply_from_str(l.val.val)
       IN IF ~reply.ok THEN Some(Err(reply.err))
          ELSE IF reply.val.t = "Pair" THEN Some(Ok(<<reply.val.key, reply.val.value>>))
          ELSE IF reply.val.t = "Ok" THEN None
          ELSE Some(Err(ServerError(reply.val.ack)))

\* ------------------------------------------------------ grouping iterators

\* Pairs::split: the Maps iterator as first created.
Pairs_split == [value |-> None, done |-> FALSE, first |-> TRUE]

MapOrNone_Always(map) == Some(Ok(map))

\* The tail of Maps::next and of MultiSepMaps::next: an empty map yields None.
MapOrNone(map) == IF map = <<>> THEN None ELSE Some(Ok(map))

RECURSIVE Maps_next(_, _, _, _)
RECURSIVE Maps_loop(_, _, _, _, _)
RECURSIVE Maps_loop_NoFirst(_, _, _, _, _)
Maps_loop_NoFirst(m, sep, s, p, map) ==
  LET r == Pairs_next(Lines_next(s, p))
      q == p + Pulled(s, p)
  IN IF ~r.some THEN [it |-> [m EXCEPT !.done = TRUE], out |-> MapOrNone(map), pos |-> q]
     ELSE IF ~r.val.ok THEN [it |-> m, out |-> Some(Err(r.val.err)), pos |-> q]
     ELSE IF r.val.val[1] = sep
     THEN [it |-> [m EXCEPT !.value = Some(r.val.val[2])], out |-> MapOrNone(map), pos |-> q]
     ELSE Maps_loop_NoFirst(m, sep, s, q, Append(map, r.val.val))

\* The loop of Maps::next, with map the pairs gathered so far.
Maps_loop(m, sep, s, p, map) ==
  LET r == Pairs_next(Lines_next(s, p))
      q == p + Pulled(s, p)
  IN IF ~r.some THEN [it |-> [m EXCEPT !.done = TRUE], out |-> MapOrNone(map), pos |-> q]
     ELSE IF ~r.val.ok THEN [it |-> m, out |-> Some(Err(r.val.err)), pos |-> q]
     ELSE IF r.val.val[1] = sep
     THEN IF m.first
          THEN Maps_next([m EXCEPT !.value = Some(r.val.val[2]), !.first = FALSE], sep, s, q)
          ELSE [it |-> [m EXCEPT !.value = Some(r.val.val[2])], out |-> MapOrNone(map), pos |-> q]
     ELSE Maps_loop(m, sep, s, q, Append(map, r.val.val))

Maps_next_NoDone(m, sep, s, p) ==
  Maps_loop([m EXCEPT !.value = None], sep, s, p,
            IF m.value.some THEN <<<<sep, m.value.val>>>> ELSE <<>>)

\* Maps::next on iterator state m over source s with p items pulled.
Maps_next(m, sep, s, p) ==
  IF m.done THEN [it |-> m, out |-> None, pos |-> p]
  ELSE Maps_loop([m EXCEPT !.value = None], sep, s, p,
                 IF m.value.some THEN <<<<sep, m.value.val>>>> ELSE <<>>)

\* Pairs::split_multisep: the MultiSepMaps iterator as first created.
Pairs_split_multisep == [last_sep |-> None, value |-> None, done |-> FALSE, first |-> TRUE]

RECURSIVE MultiSepMaps_next(_, _, _, _)
RECURSIVE MultiSepMaps_loop(_, _, _, _, _)
MultiSepMaps_loop_NoCarry(m, seps, s, p, map) ==
  LET r == Pairs_next(Lines_next(s, p))
      q == p + Pulled(s, p)
  IN IF ~r.some THEN [it |-> [m EXCEPT !.done = TRUE], out |-> MapOrNone(map), pos |-> q]
     ELSE IF ~r.val.ok THEN [it |-> m, out |-> Some(Err(r.val.err)), pos |-> q]
     ELSE IF r.val.val[1] \in seps
     THEN LET n == [m EXCEPT !.value = Some(r.val.val[2])]
          IN IF m.first
             THEN MultiSepMaps_next([n EXCEPT !.first = FALSE], seps, s, q)
             ELSE [it |-> n, out |-> MapOrNone(map), pos |-> q]
     ELSE MultiSepMaps_loop(m, seps, s, q, Append(map, r.val.val))

\* The loop of MultiSepMaps::next, with map the pairs gathered so far.
MultiSepMaps_loop(m, seps, s, p, map) ==
  LET r == Pairs_next(Lines_next(s, p))
      q == p + Pulled(s, p)
  IN IF ~r.some THEN [it |-> [m EXCEPT !.done = TRUE], out |-> MapOrNone(map), pos |-> q]
     ELSE IF ~r.val.ok THEN [it |-> m, out |-> Some(Err(r.val.err)), pos |-> q]
     ELSE IF r.val.val[1] \in seps
     THEN LET n == [m EXCEPT !.value = Some(r.val.val[2]), !.last_sep = Some(r.val.val[1])]
          IN IF m.first
             THEN MultiSepMaps_next([n EXCEPT !.first = FALSE], seps, s, q)
             ELSE [it |-> n, out |-> MapOrNone(map), pos |-> q]
     ELSE MultiSepMaps_loop(m, seps, s, q, Append(map, r.val.val))

MultiSepMaps_next_FixedKey(m, seps, s, p) ==
  IF m.done THEN [it |-> m, out |-> None, pos |-> p]
  ELSE MultiSepMaps_loop([m EXCEPT !.value = None, !.last_sep = None], seps, s, p,
                         IF m.value.some /\ m.last_sep.some
                         THEN <<<<<<"file">>, m.value.val>>>> ELSE <<>>)

\* MultiSepMaps::next
MultiSepMaps_next(m, seps, s, p) ==
  IF m.done THEN [it |-> m, out |-> None, pos |-> p]
  ELSE MultiSepMaps_loop([m EXCEPT !.value = None, !.last_sep = None], seps, s, p,
                         IF m.value.some /\ m.last_sep.some
                         THEN <<<<m.last_sep.val, m.value.val>>>> ELSE <<>>)

\* ------------------------------------------------------- Proto's readers
\* Each reader returns its result and the number of items pulled so far.

\* FromIter::from_iter of a record type that keeps every pair it is given.
FromIter_from_iter(group) == Ok(group)

RECURSIVE read_structs_from(_, _, _, _, _)
read_structs_from(m, key, s, p, acc) ==
  LET n == Maps_next(m, key, s, p)
  IN IF ~n.out.some THEN [res |-> Ok(acc), pos |-> n.pos]
     ELSE IF ~n.out.val.ok THEN [res |-> Err(n.out.val.err), pos |-> n.pos]
     ELSE LET t == FromIter_from_iter(n.out.val.val)
          IN IF ~t.ok THEN [res |-> t, pos |-> n.pos]
             ELSE read_structs_from(n.it, key, s, n.pos, Append(acc, t.val))

\* Proto::read_structs
read_structs(key, s, p) == read_structs_from(Pairs_split, key, s, p, <<>>)

RECURSIVE read_multisep_structs_from(_, _, _, _, _)
read_multisep_structs_from(m, keys, s, p, acc) ==
  LET n == MultiSepMaps_next(m, keys, s, p)
  IN IF ~n.out.some THEN [res |-> Ok(acc), pos |-> n.pos]
     ELSE IF ~n.out.val.ok THEN [res |-> Err(n.out.val.err), pos |-> n.pos]
     ELSE LET t == FromIter_from_iter(n.out.val.val)
          IN IF ~t.ok THEN [res |-> t, pos |-> n.pos]
             ELSE read_multisep_structs_from(n.it, keys, s, n.pos, Append(acc, t.val))

\* Proto::read_multisep_structs
read_multisep_structs(keys, s, p) ==
  read_multisep_structs_from(Pairs_split_multisep, keys, s, p, <<>>)

\* The filter of read_list: keep the pairs of the key, and every error.
read_list_keeps(key, r) == IF r.ok THEN r.val[1] = key ELSE TRUE

RECURSIVE read_list_from(_, _, _, _)
read_list_from(key, s, p, acc) ==
  LET r == Pairs_next(Lines_next(s, p))
      q == p + Pulled(s, p)
  IN IF ~r.some THEN [res |-> Ok(acc), pos |-> q, eof |-> (p >= Len(s))]
     ELSE IF ~read_list_keeps(key, r.val) THEN read_list_from(key, s, q, acc)
     ELSE IF ~r.val.ok THEN [res |-> Err(r.val.err), pos |-> q, eof |-> FALSE]
     ELSE read_list_from(key, s, q, Append(acc, r.val.val[2]))

\* Proto::read_list; eof says that the list ended at the source's end, not at OK.
read_list(key, s, p) == read_list_from(key, s, p, <<>>)

\* Proto::expect_ok
expect_ok(s, p) ==
  LET line == read_line(s, p)
      q == p + Pulled(s, p)
  IN IF ~line.ok THEN [res |-> Err(line.err), pos |-> q]
     ELSE LET reply == Reply_from_str(line.val)
          IN [res |-> IF ~reply.ok THEN Err(reply.err)
                      ELSE IF reply.val.t = "Ok" THEN Ok(UnitV)
                      ELSE IF reply.val.t = "Ack" THEN Err(ServerError(reply.val.ack))
                      ELSE Err(ProtoError("NotOk")),
              pos |-> q]

read_pair_AckAsNotPair(s, p) ==
  LET line == read_line(s, p)
      q == p + Pulled(s, p)
  IN IF ~line.ok THEN [res |-> Err(line.err), pos |-> q]
     ELSE LET reply == Reply_from_str(line.val)
          IN [res |-> IF ~reply.ok THEN Err(reply.err)
                      ELSE IF reply.val.t = "Pair" THEN Ok(<<reply.val.key, reply.val.value>>)
                      ELSE Err(ProtoError("NotPair")),
              pos |-> q]

\* Proto::read_pair
read_pair(s, p) ==
  LET line == read_line(s, p)
      q == p + Pulled(s, p)
  IN IF ~line.ok THEN [res |-> Err(line.err), pos |-> q]
     ELSE LET reply == Reply_from_str(line.val)
          IN [res |-> IF ~reply.ok THEN Err(reply.err)
                      ELSE IF reply.val.t = "Pair" THEN Ok(<<reply.val.key, reply.val.value>>)
                      ELSE IF reply.val.t = "Ok" THEN Err(ProtoError("NotPair"))
                      ELSE Err(ServerError(reply.val.ack)),
              pos |-> q]

\* Proto::read_field
read_field(field, s, p) ==
  LET a == read_pair(s, p)
  IN IF ~a.res.ok THEN a
     ELSE LET e == expect_ok(s, a.pos)
          IN IF ~e.res.ok THEN e
             ELSE [res |-> IF a.res.val[1] = field THEN ParseT(a.res.val[2])
                           ELSE Err(NoField(field)),
                   pos |-> e.pos]

RECURSIVE read_fields_from_Skip(_, _, _, _)
read_fields_from_Skip(field, s, p, res) ==
  LET line == read_line(s, p)
      q == p + Pulled(s, p)
  IN IF ~line.ok THEN [res |-> Err(line.err), pos |-> q]
     ELSE LET reply == Reply_from_str(line.val)
          IN IF ~reply.ok THEN [res |-> Err(reply.err), pos |-> q]
             ELSE IF reply.val.t = "Ok" THEN [res |-> Ok(res), pos |-> q]
             ELSE IF reply.val.t = "Ack"
             THEN [res |-> Err(ServerError(reply.val.ack)), pos |-> q]
             ELSE IF reply.val.key # field THEN read_fields_from_Skip(field, s, q, res)
             ELSE LET v == ParseT(reply.val.value)
                  IN IF ~v.ok THEN [res |-> v, pos |-> q]
                     ELSE read_fields_from_Skip(field, s, q, Append(res, v.val))

RECURSIVE read_fields_from(_, _, _, _)
read_fields_from(field, s, p, res) ==
  LET line == read_line(s, p)
      q == p + Pulled(s, p)
  IN IF ~line.ok THEN [res |-> Err(line.err), pos |-> q]
     ELSE LET reply == Reply_from_str(line.val)
          IN IF ~reply.ok THEN [res |-> Err(reply.err), pos |-> q]
             ELSE IF reply.val.t = "Ok" THEN [res |-> Ok(res), pos |-> q]
             ELSE IF reply.val.t = "Ack"
             THEN [res |-> Err(ServerError(reply.val.ack)), pos |-> q]
             ELSE IF reply.val.key # field THEN [res |-> Err(NoField(field)), pos |-> q]
             ELSE LET v == ParseT(reply.val.value)
                  IN IF ~v.ok THEN [res |-> v, pos |-> q]
                     ELSE read_fields_from(field, s, q, Append(res, v.val))

\* Proto::read_fields
read_fields(field, s, p) == read_fields_from(field, s, p, <<>>)

\* --------------------------------------------------------------- subsystems

\* The literals of Subsystem::from_str, with the value each parses to.
SubsystemNames ==
  { <<"database", "Database">>, <<"update", "Update">>,
    <<"stored_playlist", "Playlist">>, <<"playlist", "Queue">>,
    <<"player", "Player">>, <<"mixer", "Mixer">>, <<"output", "Output">>,
    <<"options", "Options">>, <<"partition", "Partition">>,
    <<"sticker", "Sticker">>, <<"subscription", "Subscription">>,
    <<"message", "Message">>, <<"neighbor", "Neighbor">>, <<"mount", "Mount">> }

\* Subsystem::from_str
Subsystem_from_str(s) ==
  IF \E e \in SubsystemNames : s = <<e[1]>>
  THEN Ok((CHOOSE e \in SubsystemNames : s = <<e[1]>>)[2])
  ELSE Err(BadValue(s))

\* enum Subsystem
SubsystemValues ==
  { "Database", "Update", "Playlist", "Queue", "Player", "Mixer", "Output",
    "Options", "Partition", "Sticker", "Subscription", "Message", "Neighbor",
    "Mount" }

Subsystem_to_str_Confused(v) ==
  CASE v = "Database" -> <<"database">> [] v = "Update" -> <<"update">>
    [] v = "Playlist" -> <<"playlist">> [] v = "Queue" -> <<"playlist">>
    [] v = "Player" -> <<"player">> [] v = "Mixer" -> <<"mixer">>
    [] v = "Output" -> <<"output">> [] v = "Options" -> <<"options">>
    [] v = "Partition" -> <<"partition">> [] v = "Sticker" -> <<"sticker">>
    [] v = "Subscription" -> <<"subscription">> [] v = "Message" -> <<"message">>
    [] v = "Neighbor" -> <<"neighbor">> [] v = "Mount" -> <<"mount">>

\* Subsystem::to_str
Subsystem_to_str(v) ==
  CASE v = "Database" -> <<"database">> [] v = "Update" -> <<"update">>
    [] v = "Playlist" -> <<"stored_playlist">> [] v = "Queue" -> <<"playlist">>
    [] v = "Player" -> <<"player">> [] v = "Mixer" -> <<"mixer">>
    [] v = "Output" -> <<"output">> [] v = "Options" -> <<"options">>
    [] v = "Partition" -> <<"partition">> [] v = "Sticker" -> <<"sticker">>
    [] v = "Subscription" -> <<"subscription">> [] v = "Message" -> <<"message">>
    [] v = "Neighbor" -> <<"neighbor">> [] v = "Mount" -> <<"mount">>

\* Display for Subsystem: write_str(to_str())
Subsystem_fmt(v) == Subsystem_to_str(v)

\* ------------------------------------------------------ argument serializer

\* Argument values, by type: (), &Cow<str>, u32, Subsystem, tuples and slices.
ArgUnit == [t |-> "unit"]
ArgStr(x) == [t |-> "str", text |-> x]
ArgU32(n) == [t |-> "u32", number |-> n]
ArgSubsystem(v) == [t |-> "subsystem", subsystem |-> v]
ArgTuple(es) == [t |-> "tuple", elems |-> es]
ArgSlice(es) == [t |-> "slice", elems |-> es]

\* <u32 as Display>::to_string: the decimal numeral of n.
u32_to_string(n) == <<CHOOSE d \in Numerals : NumeralValue(d) = n>>

\* The sink F: FnMut(&str) -> Result<(), E>.  It has been called f.calls
\* times, has taken f.tokens, and fails on its f.failAt-th call (never, if 0).
Sink(failAt) == [failAt |-> failAt, calls |-> 0, tokens |-> <<>>]
SinkError(n) == [kind |-> "Sink", what |-> [name |-> "sink", call |-> n]]
Sink_call(f, token) ==
  IF f.calls + 1 = f.failAt
  THEN [res |-> Err(SinkError(f.calls + 1)), f |-> [f EXCEPT !.calls = @ + 1]]
  ELSE [res |-> Ok(UnitV),
        f |-> [f EXCEPT !.calls = @ + 1, !.tokens = Append(@, token)]]

RECURSIVE to_arguments(_, _)
RECURSIVE Tuple_to_arguments(_, _)
RECURSIVE Slice_to_arguments(_, _)
RECURSIVE Tuple_to_arguments_Reversed(_, _)
RECURSIVE Slice_to_arguments_Unchecked(_, _)

Tuple_to_arguments_Reversed(es, f) ==
  IF es = <<>> THEN [res |-> Ok(UnitV), f |-> f]
  ELSE LET r == to_arguments(es[Len(es)], f)
       IN IF ~r.res.ok THEN r
          ELSE Tuple_to_arguments_Reversed(SubSeq(es, 1, Len(es) - 1), r.f)

\* argument_for_tuple: each element in field order, the first failure returned.
Tuple_to_arguments(es, f) ==
  IF es = <<>> THEN [res |-> Ok(UnitV), f |-> f]
  ELSE LET r == to_arguments(Head(es), f)
       IN IF ~r.res.ok THEN r ELSE Tuple_to_arguments(Tail(es), r.f)

Slice_to_arguments_Unchecked(es, f) ==
  IF es = <<>> THEN [res |-> Ok(UnitV), f |-> f]
  ELSE Slice_to_arguments_Unchecked(Tail(es), to_arguments(Head(es), f).f)

\* ToArguments for &[T]: each element in index order, the first failure
\* returned.
Slice_to_arguments(es, f) ==
  IF es = <<>> THEN [res |-> Ok(UnitV), f |-> f]
  ELSE LET r == to_arguments(Head(es), f)
       IN IF ~r.res.ok THEN r ELSE Slice_to_arguments(Tail(es), r.f)

\* ToArguments::to_arguments, by the type of the value.
to_arguments(v, f) ==
  CASE v.t = "unit" -> [res |-> Ok(UnitV), f |-> f]
    [] v.t = "str" -> Sink_call(f, v.text)
    [] v.t = "u32" -> Sink_call(f, u32_to_string(v.number))
    [] v.t = "subsystem" -> Sink_call(f, Subsystem_to_str(v.subsystem))
    [] v.t = "tuple" -> Tuple_to_arguments(v.elems, f)
    [] v.t = "slice" -> Slice_to_arguments(v.elems, f)

\* str::replace of one character by a text.
RECURSIVE str_replace(_, _, _)
str_replace(text, from, to) ==
  IF text = <<>> THEN <<>>
  ELSE (IF Head(text) = from THEN to ELSE <<Head(text)>>)
         \o str_replace(Tail(text), from, to)

Backslash == "\\"
Quote == "\""

Quoted_fmt_QuoteFirst(unquoted) ==
  LET quoted == str_replace(str_replace(unquoted, Quote, <<Backslash, Quote>>),
                            Backslash, <<Backslash, Backslash>>)
  IN <<Quote>> \o quoted \o <<Quote>>

\* Display for Quoted, given the text its inner value displays as.
Quoted_fmt(unquoted) ==
  LET quoted == str_replace(str_replace(unquoted, Backslash, <<Backslash, Backslash>>),
                            Quote, <<Backslash, Quote>>)
  IN <<Quote>> \o quoted \o <<Quote>>

\* ------------------------------------------------------------------ status

\* The four option flags of Status, and Status::default() of the fields
\* modelled.
StatusFlags == {"repeat", "random", "single", "consume"}
Status_default ==
  [volume |-> 0, repeat |-> FALSE, random |-> FALSE, single |-> FALSE,
   consume |-> FALSE]

\* <i8 as FromStr>::from_str, of the volume.
i8_from_str(v) ==
  IF Len(v) = 1 /\ v[1] \in Numerals THEN Ok(NumeralValue(v[1]))
  ELSE Err(ParseError("BadInteger"))

Status_flag_NonZero(value) == value # <<"0">>

\* The flag a pair's value sets: &*line.1 == "1".
Status_flag(value) == value = <<"1">>

\* The loop of Status::from_iter over the items an iterator yields.
RECURSIVE Status_fold(_, _)
Status_fold(items, result) ==
  IF items = <<>> THEN Ok(result)
  ELSE LET res == Head(items)
       IN IF ~res.ok THEN res
          ELSE IF res.val[1] = <<"volume">>
          THEN LET v == i8_from_str(res.val[2])
               IN IF ~v.ok THEN v
                  ELSE Status_fold(Tail(items), [result EXCEPT !.volume = v.val])
          ELSE IF Len(res.val[1]) = 1 /\ res.val[1][1] \in StatusFlags
          THEN Status_fold(Tail(items),
                           [result EXCEPT ![res.val[1][1]] = Status_flag(res.val[2])])
          ELSE Status_fold(Tail(items), result)

\* Status::from_iter
Status_from_iter(items) == Status_fold(items, Status_default)

\* Client::repeat, random, single, consume: the argument written for a bool.
Client_option_argument(b) == IF b THEN <<"1">> ELSE <<"0">>
\* The status response of a server whose option name was last set by the
\* argument arg, the other options off.
Server_status(name, arg) ==
  <<Ok(<<<<"volume">>, <<"10">>>>),
    Ok(<<<<"repeat">>, IF name = "repeat" THEN arg ELSE <<"0">>>>),
    Ok(<<<<"random">>, IF name = "random" THEN arg ELSE <<"0">>>>),
    Ok(<<<<"single">>, IF name = "single" THEN arg ELSE <<"0">>>>),
    Ok(<<<<"consume">>, IF name = "consume" THEN arg ELSE <<"0">>>>),
    Ok(<<<<"state">>, <<"stop">>>>)>>

\* ----------------------------------------------------------- grouped values

to_lowercase_Same(text) == text

\* str::to_lowercase, on the symbols keys are written with.
to_lowercase(text) ==
  [i \in DOMAIN text |->
     CASE text[i] = "Album" -> "album"
       [] text[i] = "Title" -> "title"
       [] OTHER -> text[i]]

\* Some(group) flushed into groups, None flushed into nothing.
Flushed(groups, curr_group) ==
  IF curr_group.some THEN Append(groups, curr_group.val) ELSE groups

\* The loop of GroupedValues::from_pairs_with_sep; a group is (key, contents).
RECURSIVE from_pairs_loop(_, _, _, _, _)
from_pairs_loop(s, p, sep, groups, curr_group) ==
  LET r == Pairs_next(Lines_next(s, p))
      q == p + Pulled(s, p)
  IN IF ~r.some THEN [res |-> Ok(Flushed(groups, curr_group)), pos |-> q]
     ELSE IF ~r.val.ok THEN [res |-> Err(r.val.err), pos |-> q]
     ELSE IF to_lowercase(r.val.val[1]) = sep
     THEN from_pairs_loop(s, q, sep, Flushed(groups, curr_group),
                          Some(<<r.val.val[2], <<>>>>))
     ELSE from_pairs_loop(s, q, sep, groups,
                          IF curr_group.some
                          THEN Some(<<curr_group.val[1],
                                      Append(curr_group.val[2], r.val.val[2])>>)
                          ELSE curr_group)

\* GroupedValues::from_pairs_with_sep
from_pairs_with_sep(s, p, sep) == from_pairs_loop(s, p, sep, <<>>, None)

\* ------------------------------------------------------------ playlist edits

\* playlist::EditAction
EditAdd(name, uri, opt_pos) == [t |-> "Add", name |-> name, uri |-> uri, opt_pos |-> opt_pos]
EditClear(name) == [t |-> "Clear", name |-> name]
EditMove(name, old, new) == [t |-> "Move", name |-> name, old |-> old, new |-> new]
EditDelete(name, pos) == [t |-> "Delete", name |-> name, pos |-> pos]

\* EditAction::command
EditAction_command(a) ==
  CASE a.t = "Add" -> <<"playlistadd">>
    [] a.t = "Clear" -> <<"playlistclear">>
    [] a.t = "Move" -> <<"playlistmove">>
    [] a.t = "Delete" -> <<"playlistdelete">>

EditAction_to_arguments_WithCommand(a, f) ==
  LET rest == CASE a.t = "Add" ->
                     IF a.opt_pos.some
                     THEN <<ArgStr(a.name), ArgStr(a.uri), ArgU32(a.opt_pos.val)>>
                     ELSE <<ArgStr(a.name), ArgStr(a.uri)>>
                [] a.t = "Clear" -> <<ArgStr(a.name)>>
                [] a.t = "Move" -> <<ArgStr(a.name), ArgU32(a.old), ArgU32(a.new)>>
                [] a.t = "Delete" -> <<ArgStr(a.name), ArgU32(a.pos)>>
  IN to_arguments(ArgTuple(<<ArgStr(EditAction_command(a))>> \o rest), f)

\* ToArguments for EditAction
EditAction_to_arguments(a, f) ==
  CASE a.t = "Add" ->
         IF a.opt_pos.some
         THEN to_arguments(ArgTuple(<<ArgStr(a.name), ArgStr(a.uri),
                                      ArgU32(a.opt_pos.val)>>), f)
         ELSE to_arguments(ArgTuple(<<ArgStr(a.name), ArgStr(a.uri)>>), f)
    [] a.t = "Clear" -> to_arguments(ArgStr(a.name), f)
    [] a.t = "Move" ->
         to_arguments(ArgTuple(<<ArgStr(a.name), ArgU32(a.old), ArgU32(a.new)>>), f)
    [] a.t = "Delete" -> to_arguments(ArgTuple(<<ArgStr(a.name), ArgU32(a.pos)>>), f)

\* ------------------------------------------------------------ audio format

\* Numbers of this section are written as their bytes, lowest first and with no
\* zero byte at the top, so that values beyond 32 bits can be told apart from
\* the 32 bits a u32 keeps.
RECURSIVE Trim(_)
Trim(xs) == IF xs # <<>> /\ xs[Len(xs)] = 0 THEN Trim(SubSeq(xs, 1, Len(xs) - 1)) ELSE xs
RECURSIVE Carry(_, _)
Carry(xs, c) ==
  IF xs = <<>> THEN (IF c = 0 THEN <<>> ELSE <<c % 256>> \o Carry(<<>>, c \div 256))
  ELSE <<(Head(xs) + c) % 256>> \o Carry(Tail(xs), (Head(xs) + c) \div 256)
\* n times k, and n divided by k (k small).
BigTimes(xs, k) == Trim(Carry([i \in DOMAIN xs |-> xs[i] * k], 0))
RECURSIVE BigDivFrom(_, _, _)
BigDivFrom(xs, k, rem) ==
  IF xs = <<>> THEN <<>>
  ELSE LET t == rem * 256 + xs[Len(xs)]
       IN BigDivFrom(SubSeq(xs, 1, Len(xs) - 1), k, t % k) \o <<t \div k>>
BigDiv(xs, k) == Trim(BigDivFrom(xs, k, 0))

\* The decimal digits, and the value of one.
Digits == <<"0", "1", "2", "3", "4", "5", "6", "7", "8", "9">>
DigitValue(ch) == (CHOOSE i \in DOMAIN Digits : Digits[i] = ch) - 1
RECURSIVE DecimalValue(_, _)
DecimalValue(chars, acc) ==
  IF chars = <<>> THEN acc
  ELSE DecimalValue(Tail(chars),
                    Trim(Carry(BigTimes(acc, 10), DigitValue(Head(chars)))))

\* <u32 as FromStr>::from_str and <u8 as FromStr>::from_str on a text of
\* characters: an optional +, then digits, the value within w bytes.
uint_from_str(chars, w, error) ==
  LET digits == IF chars # <<>> /\ Head(chars) = "+" THEN Tail(chars) ELSE chars
  IN IF digits = <<>>
          \/ \E i \in DOMAIN digits : \A j \in DOMAIN Digits : Digits[j] # digits[i]
     THEN Err(ParseError(error))
     ELSE IF Len(DecimalValue(digits, <<>>)) > w THEN Err(ParseError(error))
     ELSE Ok(DecimalValue(digits, <<>>))

\* str::contains("dsd")
contains_dsd(chars) ==
  \E i \in 1..(Len(chars) - 2) : SubSeq(chars, i, i + 2) = <<"d", "s", "d">>

\* str::split(':'): the pieces between the colons.
RECURSIVE str_split(_, _)
str_split(chars, piece) ==
  IF chars = <<>> THEN <<piece>>
  ELSE IF Head(chars) = ":" THEN <<piece>> \o str_split(Tail(chars), <<>>)
  ELSE str_split(Tail(chars), Append(piece, Head(chars)))

\* The DSD base rate that the multiplier multiplies.
DsdBaseRate == 44100

\* A panic of the running thread.
Panic == [panic |-> TRUE]

\* dsd_mul * 44100 in u32: with overflow checks (a debug build) an overflow
\* panics, without them (a release build) the 4 low bytes are kept.
u32_mul(xs, k, build) ==
  IF Len(BigTimes(xs, k)) <= 4 THEN Ok(BigTimes(xs, k))
  ELSE IF build = "debug" THEN Err(Panic)
  ELSE Ok(Trim(SubSeq(BigTimes(xs, k), 1, 4)))

\* The piece it.next() gives, parsed as a channel count.
chans_of(it, i) ==
  IF i > Len(it) THEN Err(ParseError("NoChans")) ELSE uint_from_str(it[i], 1, "BadChans")

\* AudioFormat::from_str
AudioFormat_from_str(s, build) ==
  LET it == str_split(s, <<>>)
  IN IF contains_dsd(s)
     THEN IF Len(it[1]) < 3 THEN Panic
          ELSE LET dsd_mul == uint_from_str(SubSeq(it[1], 4, Len(it[1])), 4, "BadRate")
               IN IF ~dsd_mul.ok THEN dsd_mul
                  ELSE LET product == u32_mul(dsd_mul.val, DsdBaseRate, build)
                           chans == chans_of(it, 2)
                       IN IF ~product.ok THEN Panic
                          ELSE IF ~chans.ok THEN chans
                          ELSE Ok([rate |-> BigDiv(product.val, 8), bits |-> <<1>>,
                                   chans |-> chans.val])
     ELSE LET rate == uint_from_str(it[1], 4, "BadRate")
              bits == IF Len(it) < 2 THEN Err(ParseError("NoBits"))
                      ELSE IF it[2] = <<"f">> THEN Ok(<<>>)
                      ELSE uint_from_str(it[2], 1, "BadBits")
              chans == chans_of(it, 3)
          IN IF ~rate.ok THEN rate
             ELSE IF ~bits.ok THEN bits
             ELSE IF ~chans.ok THEN chans
             ELSE Ok([rate |-> rate.val, bits |-> bits.val, chans |-> chans.val])

\* ------------------------------------------------------------------- state

VARIABLES
  \* the stream specification: one line source and the calls made on it
  source,      \* the items the line source holds
  pos,         \* how many of them have been pulled
  call,        \* the operation called last
  ret,         \* what it returned
  prevPos,     \* pos when it was called
  calls,       \* how many calls were made
  sawAck,      \* an earlier Pairs::next yielded a server error
  iter,        \* the grouping iterator made over the source, once it was called
  outs,        \* what each call of the grouping iterator yielded, in order
  \* the connection specification: client, server and the two directions
  pc,          \* where the client is: ready, get, drain, expect
  guard,       \* an IdleGuard borrows the client
  c2s,         \* commands written and not yet seen by the server
  s2c,         \* the client's line source: items sent and not yet read
  srv,         \* the server's mode: normal, idle, closed
  result,      \* what the last client operation returned to its caller
  lastOp,      \* the last client operation that returned
  nWrites,     \* command writes attempted
  lastWrite,   \* the command of the last attempt and whether it was written
  idleFate,    \* the last idle attempt: none, written, ioerr, rejected, accepted
  noidleTries, \* noidle writes attempted since the last idle attempt
  drainRan,    \* the last drop went on to drain
  drained,     \* the lines the current or last drain has read
  got,         \* the items the last get has read
  faults,      \* failures injected
  \* the function specification: one input and the function applied to it
  input,       \* the input drawn
  op,          \* the function applied to it
  output       \* what it returned

streamVars == <<source, pos, call, ret, prevPos, calls, sawAck, iter, outs>>
connVars == <<pc, guard, c2s, s2c, srv, result, lastOp, nWrites, lastWrite,
              idleFate, noidleTries, drainRan, drained, got, faults>>
fnVars == <<input, op, output>>
vars == <<source, pos, call, ret, prevPos, calls, sawAck, iter, outs,
          pc, guard, c2s, s2c, srv, result, lastOp, nWrites, lastWrite,
          idleFate, noidleTries, drainRan, drained, got, faults,
          input, op, output>>

\* -------------------------------------------------- the stream specification

K_changed == <<"changed">>
K_file == <<"file">>
K_directory == <<"directory">>
K_Time == <<"Time">>

\* The items a line source is drawn from.
SrcItems ==
  { Line(L_OK), Line(L_ACK), Fault, Line(<<"garbage">>),
    Line(Field(K_changed, <<"player">>)),
    Line(Field(K_file, <<"a">>)),
    Line(Field(K_file, <<"b">>)),
    Line(Field(K_directory, <<"Music">>)),
    Line(Field(K_Time, <<"10">>)) }

Sources == UNION {[1..n -> SrcItems] : n \in 0..MaxLen}

StreamIdle ==
  /\ pos = 0 /\ call = "none" /\ ret = Unit /\ prevPos = 0 /\ calls = 0
  /\ sawAck = FALSE /\ iter = Unit /\ outs = <<>>

ConnIdle ==
  /\ pc = "ready" /\ guard = FALSE /\ c2s = <<>> /\ s2c = <<>> /\ srv = "normal"
  /\ result = Unit /\ lastOp = "none" /\ nWrites = 0
  /\ lastWrite = [cmd |-> "none", ok |-> FALSE]
  /\ idleFate = [id |-> 0, fate |-> "none"] /\ noidleTries = 0 /\ drainRan = FALSE
  /\ drained = <<>> /\ got = <<>> /\ faults = 0

FnIdle == input = Unit /\ op = "none" /\ output = Unit

StreamInit == source \in Sources /\ StreamIdle /\ ConnIdle /\ FnIdle

\* The caller pulls the next pair of the Pairs over the source.
CallPairsNext ==
  /\ call \in {"none", "Pairs_next"} /\ calls < MaxCalls
  /\ call' = "Pairs_next"
  /\ ret' = Pairs_next(Lines_next(source, pos))
  /\ pos' = pos + Pulled(source, pos)
  /\ prevPos' = pos /\ calls' = calls + 1
  /\ sawAck' = (sawAck \/ (call = "Pairs_next" /\ ret.some /\ ~ret.val.ok
                           /\ ret.val.err.kind = "Server"))
  /\ UNCHANGED <<source, iter, outs, connVars, fnVars>>

\* The caller pulls the next group of the Maps made by split("file").
CallMapsNext ==
  /\ call \in {"none", "Maps_next"} /\ calls < MaxCalls
  /\ LET n == Maps_next(IF call = "none" THEN Pairs_split ELSE iter, K_file, source, pos)
     IN /\ iter' = n.it /\ ret' = n.out /\ pos' = n.pos
        /\ outs' = Append(outs, n.out)
  /\ call' = "Maps_next"
  /\ prevPos' = pos /\ calls' = calls + 1
  /\ UNCHANGED <<source, sawAck, connVars, fnVars>>

\* The caller pulls the next group of the MultiSepMaps made by
\* split_multisep(&["file", "directory"]).
CallMultiSepMapsNext ==
  /\ call \in {"none", "MultiSepMaps_next"} /\ calls < MaxCalls
  /\ LET n == MultiSepMaps_next(IF call = "none" THEN Pairs_split_multisep ELSE iter,
                                {K_file, K_directory}, source, pos)
     IN /\ iter' = n.it /\ ret' = n.out /\ pos' = n.pos
        /\ outs' = Append(outs, n.out)
  /\ call' = "MultiSepMaps_next"
  /\ prevPos' = pos /\ calls' = calls + 1
  /\ UNCHANGED <<source, sawAck, connVars, fnVars>>

\* The caller runs one reader of Proto on a source nothing was pulled from.
Returned(name, r) ==
  /\ call = "none"
  /\ call' = name /\ ret' = r.res /\ pos' = r.pos
  /\ prevPos' = pos /\ calls' = calls + 1
  /\ UNCHANGED <<source, sawAck, iter, outs, connVars, fnVars>>

CallExpectOk == Returned("expect_ok", expect_ok(source, pos))
CallReadPair == Returned("read_pair", read_pair(source, pos))
CallReadField == Returned("read_field", read_field(K_Time, source, pos))
CallReadFields == Returned("read_fields", read_fields(K_Time, source, pos))
CallReadList == Returned("read_list", read_list(K_changed, source, pos))
CallReadStructs == Returned("read_structs", read_structs(K_file, source, pos))
CallReadMultisepStructs ==
  Returned("read_multisep_structs",
           read_multisep_structs({K_file, K_directory}, source, pos))

StreamNext ==
  \/ CallPairsNext
  \/ CallMapsNext
  \/ CallMultiSepMapsNext
  \/ CallExpectOk
  \/ CallReadPair
  \/ CallReadField
  \/ CallReadFields
  \/ CallReadList
  \/ CallReadStructs
  \/ CallReadMultisepStructs

SpecStream == StreamInit /\ [][StreamNext]_vars

\* ---------------------------------------------- the connection specification

\* The subsystem filters idle is called with.
Filters == {<<>>, <<"Player">>, <<"Partition">>}
\* The subsystems the server at the other end knows: an older server that has
\* no partitions.
SrvKnown == {e[1] : e \in {x \in SubsystemNames : x[2] # "Partition"}}
\* The event lists a server may report in an idle response: identifiers this
\* client knows (player, mixer) and one it does not.
EventLists == {<<"player">>, <<"bogus">>, <<"mixer", "player">>, <<"player", "bogus">>}

\* ToArguments for a slice of Subsystem: one token per element, in order.
Subsystems_to_arguments(subs) == [i \in 1..Len(subs) |-> Subsystem_to_str(subs[i])]

\* Proto::run_command: the command line is written, nothing is read; w tells
\* whether the write succeeds.
run_command(w) == IF w THEN Ok(UnitV) ELSE Err(IoError)

Borrowed_Never == FALSE

\* IdleGuard(&'a mut Client): while a guard lives, the client is borrowed and
\* no method of the client can be called.
Borrowed == guard

Idle_idle_Unchecked(r) == Ok(GuardV)

\* Idle::idle after run_command returned r: the ? and the guard's construction.
Idle_idle(r) == IF r.ok THEN Ok(GuardV) ELSE r

RECURSIVE ParseSubsystems_Lenient(_)
ParseSubsystems_Lenient(vs) ==
  IF vs = <<>> THEN Ok(<<>>)
  ELSE LET h == Subsystem_from_str(Head(vs))
           t == ParseSubsystems_Lenient(Tail(vs))
       IN IF ~h.ok THEN t ELSE Ok(<<h.val>> \o t.val)

RECURSIVE ParseSubsystems(_)
\* The collect of IdleGuard::get: every value parsed in order, the first
\* failure returned.
ParseSubsystems(vs) ==
  IF vs = <<>> THEN Ok(<<>>)
  ELSE LET h == Subsystem_from_str(Head(vs))
       IN IF ~h.ok THEN h
          ELSE LET t == ParseSubsystems(Tail(vs))
               IN IF ~t.ok THEN t ELSE Ok(<<h.val>> \o t.val)

\* IdleGuard::get after read_list returned l.
IdleGuard_get(l) == IF ~l.ok THEN l ELSE ParseSubsystems(l.val)

Drop_drains_Always(r) == TRUE

\* IdleGuard::drop after run_command returned r: does the drain run?
Drop_drains(r) == r.ok

drain_breaks_Any(line) == TRUE

\* Proto::drain: does the loop break on this line?
drain_breaks(line) == line = L_OK \/ line = L_ListOK

Rest(s, n) == SubSeq(s, n + 1, Len(s))
Cost(w) == IF w THEN 0 ELSE 1

ConnInit == source = <<>> /\ StreamIdle /\ ConnIdle /\ FnIdle

\* client: idle(subs)
Idle(subs, w) ==
  /\ pc = "ready" /\ ~Borrowed /\ nWrites < MaxCmds /\ faults + Cost(w) <= MaxFaults
  /\ LET r == Idle_idle(run_command(w))
     IN /\ guard' = r.ok
        /\ result' = r
  /\ c2s' = IF w THEN Append(c2s, [cmd |-> "idle", id |-> nWrites + 1,
                                   args |-> Subsystems_to_arguments(subs)])
            ELSE c2s
  /\ lastOp' = "idle"
  /\ nWrites' = nWrites + 1
  /\ lastWrite' = [cmd |-> "idle", ok |-> w]
  /\ idleFate' = [id |-> nWrites + 1, fate |-> IF w THEN "written" ELSE "ioerr"]
  /\ noidleTries' = 0
  /\ faults' = faults + Cost(w)
  /\ drainRan' = FALSE /\ drained' = <<>> /\ got' = <<>>
  /\ UNCHANGED <<pc, s2c, srv, streamVars, fnVars>>

\* client: guard.get() is called and starts to read
GetCall ==
  /\ pc = "ready" /\ guard
  /\ pc' = "get"
  /\ UNCHANGED <<guard, c2s, s2c, srv, result, lastOp, nWrites, lastWrite,
                 idleFate, noidleTries, drainRan, drained, got, faults, streamVars, fnVars>>

\* client: get's read_list has all the lines it needs, and get returns
GetReturn ==
  /\ pc = "get"
  /\ LET r == read_list(K_changed, s2c, 0)
     IN /\ ~r.eof
        /\ result' = IdleGuard_get(r.res)
        /\ got' = SubSeq(s2c, 1, r.pos)
        /\ s2c' = Rest(s2c, r.pos)
  /\ guard' = FALSE
  /\ pc' = "ready"
  /\ lastOp' = "get"
  /\ UNCHANGED <<c2s, srv, nWrites, lastWrite, idleFate, noidleTries, drainRan,
                 drained, faults, streamVars, fnVars>>

\* client: the guard is dropped unresolved; noidle is written
DropGuard(w) ==
  /\ pc = "ready" /\ guard /\ faults + Cost(w) <= MaxFaults
  /\ LET r == run_command(w)
     IN /\ drainRan' = Drop_drains(r)
        /\ pc' = IF Drop_drains(r) THEN "drain" ELSE "ready"
        /\ guard' = Drop_drains(r)
        /\ lastOp' = IF Drop_drains(r) THEN lastOp ELSE "drop"
        /\ result' = IF Drop_drains(r) THEN result ELSE Unit
  /\ c2s' = IF w THEN Append(c2s, [cmd |-> "noidle", id |-> nWrites + 1, args |-> <<>>])
            ELSE c2s
  /\ nWrites' = nWrites + 1
  /\ lastWrite' = [cmd |-> "noidle", ok |-> w]
  /\ noidleTries' = noidleTries + 1
  /\ drained' = <<>>
  /\ faults' = faults + Cost(w)
  /\ UNCHANGED <<s2c, srv, idleFate, got, streamVars, fnVars>>

\* client: one turn of drain's loop, in the guard's drop
DrainStep ==
  /\ pc = "drain" /\ s2c # <<>>
  /\ LET line == read_line(s2c, 0)
         over == IF line.ok THEN drain_breaks(line.val) ELSE TRUE
     IN /\ pc' = IF over THEN "ready" ELSE "drain"
        /\ guard' = ~over
        /\ lastOp' = IF over THEN "drop" ELSE lastOp
        /\ result' = IF over THEN Unit ELSE result
  /\ drained' = Append(drained, Head(s2c))
  /\ s2c' = Tail(s2c)
  /\ UNCHANGED <<c2s, srv, nWrites, lastWrite, idleFate, noidleTries, drainRan,
                 got, faults, streamVars, fnVars>>

\* client: an ordinary command (ping) is written
Command(w) ==
  /\ pc = "ready" /\ ~Borrowed /\ nWrites < MaxCmds /\ faults + Cost(w) <= MaxFaults
  /\ LET r == run_command(w)
     IN /\ pc' = IF r.ok THEN "expect" ELSE "ready"
        /\ result' = IF r.ok THEN result ELSE r
        /\ lastOp' = IF r.ok THEN lastOp ELSE "ping"
  /\ c2s' = IF w THEN Append(c2s, [cmd |-> "ping", id |-> nWrites + 1, args |-> <<>>])
            ELSE c2s
  /\ nWrites' = nWrites + 1
  /\ lastWrite' = [cmd |-> "ping", ok |-> w]
  /\ faults' = faults + Cost(w)
  /\ drainRan' = FALSE /\ drained' = <<>> /\ got' = <<>>
  /\ UNCHANGED <<guard, s2c, srv, idleFate, noidleTries, streamVars, fnVars>>

\* client: the ordinary command reads its answer
ExpectOk ==
  /\ pc = "expect" /\ s2c # <<>>
  /\ LET r == expect_ok(s2c, 0)
     IN /\ result' = r.res
        /\ s2c' = Rest(s2c, r.pos)
  /\ pc' = "ready"
  /\ lastOp' = "ping"
  /\ UNCHANGED <<guard, c2s, srv, nWrites, lastWrite, idleFate, noidleTries,
                 drainRan, drained, got, faults, streamVars, fnVars>>

\* server: the next command line arrives
SrvRecv ==
  /\ c2s # <<>>
  /\ LET m == Head(c2s)
         known == \A i \in 1..Len(m.args) : m.args[i][1] \in SrvKnown
         fate(f) == IF idleFate.id = m.id THEN [idleFate EXCEPT !.fate = f] ELSE idleFate
     IN CASE srv = "closed" -> UNCHANGED <<srv, s2c, idleFate>>
          [] srv = "idle" /\ m.cmd = "noidle" ->
               srv' = "normal" /\ s2c' = Append(s2c, Line(L_OK)) /\ UNCHANGED idleFate
          [] srv = "idle" /\ m.cmd # "noidle" ->
               srv' = "closed" /\ UNCHANGED <<s2c, idleFate>>
          [] srv = "normal" /\ m.cmd = "idle" /\ known ->
               srv' = "idle" /\ idleFate' = fate("accepted") /\ UNCHANGED s2c
          [] srv = "normal" /\ m.cmd = "idle" /\ ~known ->
               s2c' = Append(s2c, Line(L_ACK)) /\ idleFate' = fate("rejected")
               /\ UNCHANGED srv
          [] srv = "normal" /\ m.cmd = "noidle" -> UNCHANGED <<srv, s2c, idleFate>>
          [] srv = "normal" /\ m.cmd = "ping" ->
               s2c' = Append(s2c, Line(L_OK)) /\ UNCHANGED <<srv, idleFate>>
  /\ c2s' = Tail(c2s)
  /\ UNCHANGED <<pc, guard, result, lastOp, nWrites, lastWrite, noidleTries,
                 drainRan, drained, got, faults, streamVars, fnVars>>

\* server: events occur while the client idles; they are reported and idle
\* mode ends
SrvEvent(evs) ==
  /\ srv = "idle"
  /\ s2c' = s2c \o [i \in 1..Len(evs) |-> Line(Field(K_changed, <<evs[i]>>))]
                \o <<Line(L_OK)>>
  /\ srv' = "normal"
  /\ UNCHANGED <<pc, guard, c2s, result, lastOp, nWrites, lastWrite, idleFate,
                 noidleTries, drainRan, drained, got, faults, streamVars, fnVars>>

\* transport: the client's next read fails
ReadFault ==
  /\ pc \in {"get", "drain", "expect"} /\ faults < MaxFaults
  /\ s2c' = <<Fault>> \o s2c
  /\ faults' = faults + 1
  /\ UNCHANGED <<pc, guard, c2s, srv, result, lastOp, nWrites, lastWrite, idleFate,
                 noidleTries, drainRan, drained, got, streamVars, fnVars>>

Next ==
  \/ \E subs \in Filters, w \in BOOLEAN : Idle(subs, w)
  \/ GetCall
  \/ GetReturn
  \/ \E w \in BOOLEAN : DropGuard(w)
  \/ DrainStep
  \/ \E w \in BOOLEAN : Command(w)
  \/ ExpectOk
  \/ SrvRecv
  \/ \E evs \in EventLists : SrvEvent(evs)
  \/ ReadFault

Spec == ConnInit /\ [][Next]_vars

\* The client runs on while it is not blocked in a read, and the server
\* answers every command line it is sent.  Events and failures may not occur.
FairSpec ==
  /\ Spec
  /\ WF_vars(GetReturn) /\ WF_vars(DrainStep) /\ WF_vars(ExpectOk)
  /\ WF_vars(SrvRecv)

\* ------------------------------------------------ the function specification

SeqsOf(S, lo, hi) == UNION {[1..n -> S] : n \in lo..hi}

\* Argument values: scalars and (), tuples and slices of them, and pairs of a
\* composite with a scalar or a slice, as in run_command("cmd", (a, b)), and
\* slices of a tuple.  The elements of a slice are of one type.
ArgScalars == {ArgU32(5), ArgU32(10), ArgStr(<<"a b">>), ArgSubsystem("Player")}
ArgAtoms == ArgScalars \cup {ArgUnit}
ArgTuples == {ArgTuple(es) : es \in SeqsOf(ArgAtoms, 1, MaxArity)}
ArgSlices ==
  {ArgSlice(es) : es \in {e \in SeqsOf(ArgScalars, 0, MaxArity) :
                            \A i, j \in DOMAIN e : e[i].t = e[j].t}}
ArgFlat == ArgAtoms \cup ArgTuples \cup ArgSlices
ArgNested ==
  {ArgTuple(<<a, b>>) : a \in ArgTuples \cup ArgSlices, b \in ArgAtoms \cup ArgSlices}
    \cup {ArgSlice(<<a>>) : a \in ArgTuples}
ArgValues == ArgFlat \cup ArgNested

\* Texts to quote and lines to decode, over the characters that matter.
Texts == SeqsOf({"He said ", "hi", Quote, Backslash}, 0, MaxText)
DecodedLines == SeqsOf({"OK", "ACK", ":", " ", "file"}, 0, MaxLine)
\* Texts to parse as a Subsystem: every literal, and near misses.
NameTexts ==
  {<<e[1]>> : e \in SubsystemNames}
    \cup {<<>>, <<"bogus">>, <<"Player">>, <<"PLAYER">>, <<"player", " ">>,
           <<" ", "player">>, <<"stored", "_", "playlist">>, <<"changed">>}

\* The items a status response's pair iterator is drawn from.
StatusItems ==
  {Ok(<<<<k>>, <<v>>>>) : k \in StatusFlags, v \in {"0", "1"}}
    \cup {Ok(<<<<"repeat">>, <<"true">>>>), Ok(<<<<"Repeat">>, <<"1">>>>),
          Ok(<<<<"volume">>, <<"10">>>>), Ok(<<<<"volume">>, <<"x">>>>), Err(IoError)}

\* n calls of next() on a Maps and on a MultiSepMaps over source s: what each
\* call yields and how many items of the source are pulled after it.
RECURSIVE Maps_run(_, _, _, _, _)
Maps_run(m, sep, s, p, n) ==
  IF n = 0 THEN <<>>
  ELSE LET r == Maps_next(m, sep, s, p)
       IN <<[out |-> r.out, pos |-> r.pos]>> \o Maps_run(r.it, sep, s, r.pos, n - 1)
RECURSIVE MultiSepMaps_run(_, _, _, _, _)
MultiSepMaps_run(m, seps, s, p, n) ==
  IF n = 0 THEN <<>>
  ELSE LET r == MultiSepMaps_next(m, seps, s, p)
       IN <<[out |-> r.out, pos |-> r.pos]>>
            \o MultiSepMaps_run(r.it, seps, s, r.pos, n - 1)

K_album == <<"album">>
\* The items the response of a grouped list command is drawn from.
TagItems ==
  { Line(Field(<<"Album">>, <<"A">>)), Line(Field(K_album, <<"B">>)),
    Line(Field(<<"Title">>, <<"t">>)), Line(Field(<<"Title">>, <<"u">>)),
    Line(L_OK), Line(L_ACK), Fault }

\* The items the response of a homogeneous command list is drawn from.
FieldItems ==
  { Line(Field(K_Time, <<"10">>)), Line(Field(K_Time, <<"20">>)),
    Line(Field(K_Time, <<"x">>)), Line(Field(K_file, <<"a">>)),
    Line(L_OK), Line(L_ACK), Fault }

\* The playlist edits serialized: names, one with a space, a uri, positions.
EditActions ==
  LET EditNames == {<<"mix">>, <<"a b">>}
      EditUris == {<<"song.mp3">>}
      EditPositions == {NumeralValue(d) : d \in {"0", "5", "10"}}
  IN {EditAdd(n, u, p) : n \in EditNames, u \in EditUris,
                         p \in {None} \cup {Some(x) : x \in EditPositions}}
       \cup {EditClear(n) : n \in EditNames}
       \cup {EditMove(n, o, p) : n \in EditNames, o \in EditPositions, p \in EditPositions}
       \cup {EditDelete(n, p) : n \in EditNames, p \in EditPositions}

\* The format texts parsed: dsd<N>:<C> with multipliers around the largest
\* whose product fits 32 bits and around the largest u32, and channel counts
\* that parse and that do not; two texts that are not DSD.
AudioTexts ==
  LET DsdMultipliers ==
        { <<"6", "4">>, <<"1", "2", "8">>, <<"5", "1", "2">>, <<"+", "6", "4">>, <<>>,
          <<"x">>, <<"9", "7", "3", "9", "1">>, <<"9", "7", "3", "9", "2">>,
          <<"1", "0", "0", "0", "0", "0">>,
          <<"4", "2", "9", "4", "9", "6", "7", "2", "9", "5">>,
          <<"4", "2", "9", "4", "9", "6", "7", "2", "9", "6">> }
      ChannelTexts == {<<"1">>, <<"2">>, <<"2", "5", "6">>, <<>>}
  IN {<<"d", "s", "d">> \o n \o <<":">> \o ch : n \in DsdMultipliers, ch \in ChannelTexts}
       \cup {<<"d", "s", "d">> \o n : n \in DsdMultipliers}
       \cup { <<"4", "4", "1", "0", "0", ":", "1", "6", ":", "2">>,
              <<"4", "8", "0", "0", "0", ":", "f", ":", "2">>,
              <<"2", ":", "d", "s", "d">> }

FnInputs ==
  {[kind |-> "args", value |-> v, failAt |-> n] :
     v \in ArgValues, n \in 0..(2 * MaxArity + 1)}
    \cup {[kind |-> "text", text |-> x] : x \in Texts}
    \cup {[kind |-> "line", text |-> x] : x \in DecodedLines}
    \cup {[kind |-> "subsystem", value |-> v] : v \in SubsystemValues}
    \cup {[kind |-> "name", text |-> x] : x \in NameTexts}
    \cup {[kind |-> "audio", audio |-> x] : x \in AudioTexts}
    \cup {[kind |-> "edit", action |-> a] : a \in EditActions}
    \cup {[kind |-> "fields", fields |-> x] : x \in SeqsOf(FieldItems, 0, MaxLen)}
    \cup {[kind |-> "tags", tags |-> x] : x \in SeqsOf(TagItems, 0, MaxLen)}
    \cup {[kind |-> "lines", lines |-> x] : x \in Sources}
    \cup {[kind |-> "status", items |-> x] : x \in SeqsOf(StatusItems, 0, MaxLen - 1)}
    \cup {[kind |-> "option", name |-> n, flag |-> b] : n \in StatusFlags, b \in BOOLEAN}

FnInit == input \in FnInputs /\ op = "none" /\ output = Unit
            /\ source = <<>> /\ StreamIdle /\ ConnIdle

Applied(kind, name, r) ==
  /\ input.kind = kind /\ op = "none"
  /\ op' = name /\ output' = r
  /\ UNCHANGED <<input, streamVars, connVars>>

\* value.to_arguments(&mut f)
CallToArguments ==
  /\ input.kind = "args"
  /\ Applied("args", "to_arguments",
             LET r == to_arguments(input.value, Sink(input.failAt))
             IN [res |-> r.res, calls |-> r.f.calls, tokens |-> r.f.tokens])

\* format!("{}", Quoted(text))
CallQuotedFmt ==
  /\ input.kind = "text"
  /\ Applied("text", "Quoted_fmt", Quoted_fmt(input.text))

\* line.parse::<Reply>(), and Pairs::next on a source that yields the line
CallReplyFromStr ==
  /\ input.kind = "line"
  /\ Applied("line", "Reply_from_str",
             [reply |-> Reply_from_str(input.text),
              next |-> Pairs_next(Some(Ok(input.text)))])

\* the three renderings of a Subsystem, and its literal parsed back
CallSubsystemToStr ==
  /\ input.kind = "subsystem"
  /\ Applied("subsystem", "Subsystem_to_str",
             [literal |-> Subsystem_to_str(input.value),
              display |-> Subsystem_fmt(input.value),
              tokens |-> to_arguments(ArgSubsystem(input.value), Sink(0)).f.tokens,
              parsed |-> Subsystem_from_str(Subsystem_to_str(input.value))])

\* text.parse::<Subsystem>()
CallSubsystemFromStr ==
  /\ input.kind = "name"
  /\ Applied("name", "Subsystem_from_str", Subsystem_from_str(input.text))

\* Status::from_iter(pairs)
CallStatusFromIter ==
  /\ input.kind = "status"
  /\ Applied("status", "Status_from_iter", Status_from_iter(input.items))

\* mpd.<option>(flag), then mpd.status()
CallSetOption ==
  /\ input.kind = "option"
  /\ Applied("option", "set_option",
             Status_from_iter(Server_status(input.name,
                                            Client_option_argument(input.flag))))

\* split("file") and split_multisep(&["file"]) over the same lines, each
\* called MaxCalls times.
CallSplitBoth ==
  /\ input.kind = "lines"
  /\ Applied("lines", "split_both",
             [single |-> Maps_run(Pairs_split, K_file, input.lines, 0, MaxCalls),
              multi |-> MultiSepMaps_run(Pairs_split_multisep, {K_file}, input.lines,
                                         0, MaxCalls)])

\* GroupedValues::from_pairs_with_sep(&mut pairs, "album")
CallFromPairsWithSep ==
  /\ input.kind = "tags"
  /\ Applied("tags", "from_pairs_with_sep", from_pairs_with_sep(input.tags, 0, K_album))

\* self.read_fields::<u32>("Time")
CallReadFieldsOf ==
  /\ input.kind = "fields"
  /\ Applied("fields", "read_fields", read_fields(K_Time, input.fields, 0))

\* action.to_arguments(&mut f) on a sink that takes every token, and
\* action.command()
CallEditAction ==
  /\ input.kind = "edit"
  /\ Applied("edit", "EditAction",
             LET r == EditAction_to_arguments(input.action, Sink(0))
             IN [res |-> r.res, tokens |-> r.f.tokens,
                 command |-> EditAction_command(input.action)])

\* text.parse::<AudioFormat>(), in a build with or without overflow checks
CallAudioFormatFromStr ==
  /\ input.kind = "audio"
  /\ \E build \in {"debug", "release"} :
       Applied("audio", "AudioFormat_from_str", AudioFormat_from_str(input.audio, build))

FnNext ==
  \/ CallToArguments
  \/ CallQuotedFmt
  \/ CallReplyFromStr
  \/ CallSubsystemToStr
  \/ CallSubsystemFromStr
  \/ CallAudioFormatFromStr
  \/ CallEditAction
  \/ CallReadFieldsOf
  \/ CallFromPairsWithSep
  \/ CallSplitBoth
  \/ CallStatusFromIter
  \/ CallSetOption

SpecFn == FnInit /\ [][FnNext]_vars

\* ------------------------------------------------------------------ claims

\* A terminal marker of a response: the line OK, or a line that begins with ACK.
IsTerminalMarker(item) ==
  ~item.fail /\ (item.text = L_OK \/ (item.text # <<>> /\ item.text[1] = "ACK"))

\* C1: while an IdleGuard lives (from a successful idle() to the end of get()
\* or of the drop), the only command written to the connection is the one
\* noidle of the guard's drop.
C1_OnlyNoidleWhileIdling ==
  [][(guard /\ nWrites' # nWrites)
       => (lastWrite'.cmd = "noidle" /\ noidleTries' = 1 /\ pc = "ready")]_vars

C1_Witness == guard /\ pc = "drain" /\ lastWrite = [cmd |-> "noidle", ok |-> TRUE]

\* C2: the drain of a dropped guard reads lines up to the terminal marker of
\* the response, OK or ACK, and stops there: while it is still reading, it has
\* read no terminal marker.
C2_DrainStopsAtMarker ==
  pc = "drain" => \A i \in DOMAIN drained : ~IsTerminalMarker(drained[i])

\* C3: after an IdleGuard is dropped without get(), the clean-up completes
\* (unless the transport fails) and leaves the guard gone and no line unread.
C3_DropCompletes ==
  []((pc = "drain" /\ faults = 0)
       => <>(faults > 0 \/ (pc = "ready" /\ lastOp = "drop" /\ ~guard /\ s2c = <<>>)))

\* C4: get() called while the server idles with no event pending returns, with
\* an empty list, unless an event occurs or the transport fails.
C4_GetStopsWaiting ==
  []((pc = "get" /\ srv = "idle" /\ s2c = <<>> /\ c2s = <<>> /\ faults = 0)
       => <>(\/ srv # "idle"
             \/ faults > 0
             \/ (pc = "ready" /\ lastOp = "get" /\ result.ok /\ result.val = <<>>)))

\* The value of an event line, changed: <value>.
EventValue(item) == SubSeq(item.text, Len(K_changed) + Len(Sep) + 1, Len(item.text))
IsEventLine(item) == ~item.fail /\ item.text = Field(K_changed, EventValue(item))
\* What get() has read is a whole idle response: event lines, then OK.
GotEvents ==
  /\ got # <<>> /\ got[Len(got)] = Line(L_OK)
  /\ \A i \in 1..(Len(got) - 1) : IsEventLine(got[i])
KnownIdentifiers == {<<e[1]>> : e \in SubsystemNames}

C6_FailedIdleBuildsNoGuard ==
  idleFate.fate \in {"ioerr", "rejected"} => (~guard /\ noidleTries = 0)

\* C6 as amended: an idle whose write fails returns the I/O error, builds no
\* guard, writes nothing and is followed by no noidle; an idle whose write
\* succeeds returns a guard, whatever the server will answer.
C6_IdleWriteFailure ==
  /\ idleFate.fate = "ioerr" =>
       /\ ~guard /\ noidleTries = 0
       /\ \A i \in DOMAIN c2s : c2s[i].id # idleFate.id
       /\ (lastOp = "idle" /\ pc = "ready") => result = Err(IoError)
  /\ (lastOp = "idle" /\ lastWrite = [cmd |-> "idle", ok |-> TRUE]) =>
       (guard /\ result.ok)

C6_Witness == idleFate.fate = "ioerr" /\ lastOp = "idle" /\ pc = "ready" /\ nWrites = 2

\* C7 as claimed: every drop writes noidle once and drains, whatever happened
\* to the write, and returns nothing to the caller.
C7_DropAlwaysDrains ==
  (lastOp = "drop" /\ pc = "ready") => (noidleTries = 1 /\ drainRan /\ result = Unit)

\* C7 as amended: every drop attempts the noidle write once; it drains exactly
\* when the write succeeded; no failure of either reaches the caller.
C7_DropCleanup ==
  (lastOp = "drop" /\ pc = "ready") =>
    /\ noidleTries = 1 /\ lastWrite.cmd = "noidle"
    /\ drainRan <=> lastWrite.ok
    /\ drainRan => drained # <<>>
    /\ result = Unit /\ ~guard

C7_Witness ==
  /\ lastOp = "drop" /\ pc = "ready" /\ drainRan
  /\ drained[Len(drained)] = Fault

\* C8: one call of Pairs::next pulls one line (none from an exhausted source)
\* and yields the pair of a Pair line, None for OK or exhaustion, the server
\* error of an ACK line, and the I/O or parse error of a failed read or decode.
C8_PairsNextOneLine ==
  call = "Pairs_next" =>
    IF prevPos >= Len(source) THEN ret = None /\ pos = prevPos
    ELSE /\ pos = prevPos + 1
         /\ LET item == source[pos]
                d == Reply_from_str(item.text)
            IN IF item.fail THEN ret = Some(Err(IoError))
               ELSE IF ~d.ok THEN ret = Some(Err(d.err)) /\ d.err.kind = "Parse"
               ELSE IF d.val.t = "Pair" THEN ret = Some(Ok(<<d.val.key, d.val.value>>))
               ELSE IF d.val.t = "Ok" THEN ret = None
               ELSE d.val.t = "Ack" /\ ret = Some(Err(ServerError(d.val.ack)))

C8_Witness ==
  /\ call = "Pairs_next" /\ prevPos = 1 /\ Len(source) >= 2 /\ source[2] = Line(L_ACK)
  /\ ret.some /\ ~ret.val.ok /\ ret.val.err.kind = "Server"

\* C9: once Pairs::next has yielded a server error, every later call yields
\* None.
C9_NoneAfterAck == (call = "Pairs_next" /\ sawAck) => ret = None

Readers ==
  {"expect_ok", "read_field", "read_fields", "read_list", "read_structs",
   "read_multisep_structs"}
\* The place of the first terminal marker of the source, 0 if it has none.
ResponseEnd(s) ==
  LET ends == {i \in DOMAIN s : IsTerminalMarker(s[i])}
  IN IF ends = {} THEN 0 ELSE CHOOSE i \in ends : \A j \in ends : i <= j

\* C10: when a reader returns, on a source that holds a whole response and no
\* failing read, exactly the lines up to and including the response's terminal
\* marker have been pulled.
C10_ResponseConsumed ==
  (call \in Readers /\ ResponseEnd(source) > 0 /\ \A i \in DOMAIN source : ~source[i].fail)
    => pos = ResponseEnd(source)

\* ---- grouping

\* The pairs of a source, up to its first item that is not a pair line.
RECURSIVE PairsOf(_)
PairsOf(s) ==
  IF s = <<>> \/ Head(s).fail THEN <<>>
  ELSE LET i == IndexOfSep(Head(s).text)
       IN IF Head(s).text = L_OK \/ Head(s).text[1] = "ACK" \/ i = 0 THEN <<>>
          ELSE <<<<SubSeq(Head(s).text, 1, i - 1),
                   SubSeq(Head(s).text, i + 2, Len(Head(s).text))>>>> \o PairsOf(Tail(s))
\* The pair stream over the source ends cleanly: after its pairs comes OK, or
\* the end of the source.
EndsCleanly(s) ==
  Len(PairsOf(s)) = Len(s) \/ s[Len(PairsOf(s)) + 1] = Line(L_OK)
\* The places of the sentinel pairs among the pairs ps, and the k-th of them.
SentinelPlaces(ps, seps) == {i \in DOMAIN ps : ps[i][1] \in seps}
SentinelPlace(ps, seps, k) ==
  IF k > Cardinality(SentinelPlaces(ps, seps)) THEN Len(ps) + 1
  ELSE CHOOSE i \in SentinelPlaces(ps, seps) :
         Cardinality({j \in SentinelPlaces(ps, seps) : j <= i}) = k
\* A yielded group: the pair that identifies it, and its members.
GroupHead(g) == g[1]
GroupMembers(g) == Tail(g)
\* The calls made so far on a grouping iterator over a clean stream that
\* begins with a sentinel yielded the groups of the sentinels seps, then None.
GroupsFollowSentinels(seps) ==
  LET ps == PairsOf(source)
      n == Cardinality(SentinelPlaces(ps, seps))
  IN (EndsCleanly(source) /\ ps # <<>> /\ ps[1][1] \in seps) =>
       \A i \in DOMAIN outs :
         IF i > n THEN outs[i] = None
         ELSE /\ outs[i].some /\ outs[i].val.ok /\ outs[i].val.val # <<>>
              /\ GroupHead(outs[i].val.val) = ps[SentinelPlace(ps, seps, i)]
              /\ GroupMembers(outs[i].val.val)
                   = SubSeq(ps, SentinelPlace(ps, seps, i) + 1,
                            SentinelPlace(ps, seps, i + 1) - 1)

\* C11: over a pair stream that ends cleanly and begins with a sentinel pair,
\* Maps yields one group per sentinel pair, in order and with no empty group
\* first; the i-th group is identified by the i-th sentinel pair and holds the
\* pairs between it and the next sentinel (or the end), in the order received.
C11_MapsGroupsPerSentinel == call = "Maps_next" => GroupsFollowSentinels({K_file})

C11_Witness ==
  /\ call = "Maps_next"
  /\ source = <<Line(Field(K_file, <<"a">>)), Line(Field(K_Time, <<"10">>)),
                Line(Field(K_file, <<"b">>))>>
  /\ outs = <<Some(Ok(<<<<K_file, <<"a">>>>, <<K_Time, <<"10">>>>>>)),
              Some(Ok(<<<<K_file, <<"b">>>>>>)), None>>

Sentinels == IF call = "Maps_next" THEN {K_file} ELSE {K_file, K_directory}
YieldedGroup ==
  call \in {"Maps_next", "MultiSepMaps_next"} /\ ret.some /\ ret.val.ok

C13_GroupTaggedWithItsSentinel ==
  call = "MultiSepMaps_next" => GroupsFollowSentinels({K_file, K_directory})

C13_Witness ==
  /\ call = "MultiSepMaps_next"
  /\ source = <<Line(Field(K_directory, <<"Music">>)), Line(Field(K_Time, <<"10">>)),
                Line(Field(K_file, <<"a">>))>>
  /\ outs = <<Some(Ok(<<<<K_directory, <<"Music">>>>, <<K_Time, <<"10">>>>>>)),
              Some(Ok(<<<<K_file, <<"a">>>>>>)), None>>

\* C14: once a grouping iterator has returned an error, every later call of
\* next yields None.
C14_ErrorEndsGrouping ==
  call \in {"Maps_next", "MultiSepMaps_next"} =>
    \A i, j \in DOMAIN outs :
      (i < j /\ outs[i].some /\ ~outs[i].val.ok) => outs[j] = None

\* ---- argument serialization

\* The leaf scalars of an argument value, depth first, and the token of each.
RECURSIVE ArgLeaves(_)
RECURSIVE ArgLeavesOfAll(_)
ArgLeaves(v) ==
  IF v.t = "unit" THEN <<>>
  ELSE IF v.t \in {"tuple", "slice"} THEN ArgLeavesOfAll(v.elems)
  ELSE <<v>>
ArgLeavesOfAll(es) ==
  IF es = <<>> THEN <<>> ELSE ArgLeaves(Head(es)) \o ArgLeavesOfAll(Tail(es))
LeafToken(v) ==
  CASE v.t = "str" -> v.text
    [] v.t = "u32" -> IF v.number = 5 THEN <<"5">> ELSE <<"10">>
    [] v.t = "subsystem" -> <<"player">>
LeafTokens(v) == [i \in 1..Len(ArgLeaves(v)) |-> LeafToken(ArgLeaves(v)[i])]

\* C15: with a sink that does not fail, to_arguments calls the sink once per
\* leaf scalar, in field and index order and depth first; () and the empty
\* slice emit nothing.
C15_TokensInOrder ==
  (op = "to_arguments" /\ input.failAt = 0) =>
    /\ output.calls = Len(ArgLeaves(input.value))
    /\ output.tokens = LeafTokens(input.value)
    /\ input.value \in {ArgUnit, ArgSlice(<<>>)} => output.tokens = <<>>

C15_Witness ==
  /\ op = "to_arguments" /\ input.failAt = 0
  /\ input.value = ArgTuple(<<ArgTuple(<<ArgU32(5), ArgUnit>>),
                              ArgSlice(<<ArgU32(10), ArgU32(5)>>)>>)
  /\ output.tokens = <<<<"5">>, <<"10">>, <<"5">>>>

\* C16: to_arguments fails only when the sink fails: if the sink fails on its
\* n-th token, that error is returned, the n - 1 tokens before it were emitted
\* in order and the sink is not called again; otherwise the result is Ok.
C16_FailsOnlyWithSink ==
  op = "to_arguments" =>
    IF input.failAt \in 1..Len(ArgLeaves(input.value))
    THEN /\ output.res = Err(SinkError(input.failAt))
         /\ output.calls = input.failAt
         /\ output.tokens = SubSeq(LeafTokens(input.value), 1, input.failAt - 1)
    ELSE /\ output.res = Ok(UnitV)
         /\ output.calls = Len(ArgLeaves(input.value))

C16_Witness ==
  /\ op = "to_arguments" /\ input.failAt = 2
  /\ input.value = ArgTuple(<<ArgSlice(<<ArgU32(5), ArgU32(10)>>), ArgStr(<<"a b">>)>>)
  /\ output.res = Err(SinkError(2)) /\ output.tokens = <<<<"5">>>>

\* ---- quoting

\* Every character of a text escaped once, in one pass.
RECURSIVE EscapedOnce(_)
EscapedOnce(x) ==
  IF x = <<>> THEN <<>>
  ELSE (CASE Head(x) = Backslash -> <<Backslash, Backslash>>
          [] Head(x) = Quote -> <<Backslash, Quote>>
          [] OTHER -> <<Head(x)>>) \o EscapedOnce(Tail(x))

\* C17: Quoted(t) renders a double quote, t with every backslash doubled and
\* every double quote preceded by a backslash, each character escaped once,
\* and a double quote.
C17_QuotedEscapes ==
  op = "Quoted_fmt" =>
    /\ output = <<Quote>> \o EscapedOnce(input.text) \o <<Quote>>
    /\ input.text = <<>> => output = <<Quote, Quote>>
    /\ input.text = <<"He said ", Quote, "hi", Quote, Backslash>> =>
         output = <<Quote, "He said ", Backslash, Quote, "hi", Backslash, Quote,
                    Backslash, Backslash, Quote>>

C17_Witness ==
  /\ op = "Quoted_fmt"
  /\ input.text = <<"He said ", Quote, "hi", Quote, Backslash>>
  /\ Len(output) = 10

\* ---- subsystem names

WireNames == {Subsystem_to_str(v) : v \in SubsystemValues}

\* C18: each of the 14 subsystems renders, by to_str, Display and
\* ToArguments, to one literal that parses back to it; no two subsystems share
\* a literal; every other text fails to parse with BadValue.
C18_SubsystemRoundTrip ==
  /\ Cardinality(SubsystemValues) = 14
  /\ op = "Subsystem_to_str" =>
       /\ output.parsed = Ok(input.value)
       /\ output.display = output.literal
       /\ output.tokens = <<output.literal>>
       /\ \A w \in SubsystemValues \ {input.value} :
            Subsystem_to_str(w) # output.literal
  /\ op = "Subsystem_from_str" =>
       IF input.text \in WireNames
       THEN output.ok /\ Subsystem_to_str(output.val) = input.text
       ELSE output = Err(BadValue(input.text))

C18_Witness ==
  /\ op = "Subsystem_to_str" /\ input.value = "Playlist"
  /\ output.literal = <<"stored_playlist">> /\ output.parsed = Ok("Playlist")

\* ---- error kinds

ErrReaders == {"Pairs_next", "expect_ok", "read_pair", "read_field", "read_fields"}
Failed == IF call = "Pairs_next" THEN ret.some /\ ~ret.val.ok ELSE ~ret.ok
Failure == IF call = "Pairs_next" THEN ret.val.err ELSE ret.err
\* The line read last decodes to an ACK, or does not decode.
IsAckLine(item) ==
  ~item.fail /\ item.text # <<>> /\ item.text[1] = "ACK" /\ ParseAck(item.text).ok
IsUndecodable(item) ==
  /\ ~item.fail /\ item.text # L_OK
  /\ IF item.text # <<>> /\ item.text[1] = "ACK" THEN ~ParseAck(item.text).ok
     ELSE \A i \in 1..(Len(item.text) - 1) : ~(item.text[i] = ":" /\ item.text[i + 1] = " ")

\* C19: for Pairs::next, expect_ok, read_pair, read_field and read_fields, the
\* line read last decides the kind of the error: an ACK line gives
\* Error::Server with its payload, a failed read Error::Io, an undecodable
\* line Error::Parse; Error::Proto comes only of a well-formed line; and no
\* such line gives a success.
C19_ErrorKindsDistinct ==
  (call \in ErrReaders /\ pos > prevPos) =>
    /\ source[pos].fail => (Failed /\ Failure = IoError)
    /\ IsAckLine(source[pos]) =>
         (Failed /\ Failure = ServerError(ParseAck(source[pos].text).val))
    /\ IsUndecodable(source[pos]) => (Failed /\ Failure.kind = "Parse")
    /\ Failed =>
         /\ Failure.kind \in {"Io", "Server", "Parse", "Proto"}
         /\ Failure.kind = "Server" => IsAckLine(source[pos])
         /\ Failure.kind = "Io" => (source[pos].fail \/ pos = Len(source))
         /\ Failure.kind = "Proto" =>
              /\ ~source[pos].fail /\ ~IsAckLine(source[pos])
              /\ ~IsUndecodable(source[pos])
              /\ Failure.what.name \in {"NotOk", "NotPair", "NoField"}
    /\ \A i \in (prevPos + 1)..(pos - 1) :
         ~source[i].fail /\ ~IsAckLine(source[i]) /\ ~IsUndecodable(source[i])

C19_Witness ==
  /\ call = "read_field" /\ prevPos = 0 /\ pos = 2
  /\ source[2] = Line(L_ACK) /\ ~ret.ok /\ ret.err.kind = "Server"

\* ---- decoding

HasSepAt(l, i) == i \in 1..(Len(l) - 1) /\ l[i] = ":" /\ l[i + 1] = " "

\* C20: one line decodes to one reply: OK to Ok; a line that does not begin
\* with ACK to the pair of what precedes and what follows its first ": ", both
\* verbatim; and a line that has no ": " to the BadPair parse error.
C20_DecodeOneLine ==
  (op = "Reply_from_str" /\ ~(input.text # <<>> /\ input.text[1] = "ACK")) =>
    LET l == input.text
    IN IF l = <<"OK">> THEN output.reply = Ok(ReplyOk) /\ output.next = None
       ELSE IF \E i \in DOMAIN l : HasSepAt(l, i)
       THEN \E i \in DOMAIN l :
              /\ HasSepAt(l, i) /\ \A j \in 1..(i - 1) : ~HasSepAt(l, j)
              /\ output.reply.ok /\ output.reply.val.t = "Pair"
              /\ output.reply.val.key \o <<":", " ">> \o output.reply.val.value = l
              /\ Len(output.reply.val.key) = i - 1
              /\ output.next = Some(Ok(<<output.reply.val.key, output.reply.val.value>>))
       ELSE /\ output.reply = Err(ParseError("BadPair"))
            /\ output.next = Some(Err(ParseError("BadPair")))

C20_Witness ==
  /\ op = "Reply_from_str" /\ input.text = <<"file", ":", " ", ":", " ">>
  /\ output.next = Some(Ok(<<<<"file">>, <<":", " ">>>>))

\* ---- status

\* The value of the last pair of the key among the items, if there is one.
LastOf(items, key) ==
  LET at == {i \in DOMAIN items : items[i].ok /\ items[i].val[1] = <<key>>}
  IN IF at = {} THEN None
     ELSE Some(items[CHOOSE i \in at : \A j \in at : j <= i].val[2])

\* C21: Status::from_iter sets each of repeat, random, single and consume to
\* true exactly when the last pair of that key has the value 1, and leaves it
\* false when there is none; so an option set to b reads back as b.
C21_OptionFlags ==
  /\ (op = "Status_from_iter" /\ output.ok) =>
       \A k \in StatusFlags :
         output.val[k] = (LastOf(input.items, k) = Some(<<"1">>))
  /\ op = "set_option" => (output.ok /\ output.val[input.name] = input.flag)

C21_Witness ==
  /\ op = "Status_from_iter"
  /\ input.items = <<Ok(<<<<"repeat">>, <<"0">>>>), Ok(<<<<"repeat">>, <<"1">>>>)>>
  /\ output = Ok([Status_default EXCEPT !.repeat = TRUE])

\* ---- the drop and a pushed event

\* C22: whichever comes first at the server, the events of an accepted idle or
\* the noidle of the guard's drop, the drain reads the event lines and the one
\* OK of the idle response and nothing else: no line is left unread, none is
\* still to come, and the next command reads its own answer.
C22_DropDrainsOneResponse ==
  (pc = "ready" /\ noidleTries = 1 /\ idleFate.fate = "accepted" /\ faults = 0) =>
    /\ lastOp = "drop" =>
         /\ drainRan /\ drained # <<>> /\ drained[Len(drained)] = Line(L_OK)
         /\ \A i \in 1..(Len(drained) - 1) : IsEventLine(drained[i])
         /\ s2c = <<>> /\ srv = "normal"
         /\ \A i \in DOMAIN c2s : c2s[i].cmd = "noidle"
    /\ lastOp = "ping" => (result = Ok(UnitV) /\ s2c = <<>>)

C22_Witness ==
  /\ pc = "ready" /\ lastOp = "drop" /\ faults = 0 /\ idleFate.fate = "accepted"
  /\ drained = <<Line(Field(K_changed, <<"player">>)), Line(L_OK)>>
  /\ Len(c2s) = 1 /\ c2s[1].cmd = "noidle"

\* The other interleaving: the noidle reached the server in idle mode.
C22_NoidleAnswered ==
  /\ pc = "ready" /\ lastOp = "drop" /\ faults = 0 /\ idleFate.fate = "accepted"
  /\ drained = <<Line(L_OK)>> /\ c2s = <<>>

\* A command after the drop whose noidle came late has read its own answer.
C22_NextCommand ==
  /\ pc = "ready" /\ lastOp = "ping" /\ noidleTries = 1
  /\ idleFate.fate = "accepted" /\ faults = 0 /\ result = Ok(UnitV)

\* ---- grouping, whole streams

\* The pairs of all groups yielded so far, in the order yielded.
RECURSIVE GroupsConcat(_)
GroupsConcat(os) ==
  IF os = <<>> THEN <<>>
  ELSE (IF Head(os).some /\ Head(os).val.ok THEN Head(os).val.val ELSE <<>>)
         \o GroupsConcat(Tail(os))

\* C23: once a grouping iterator has seen the end of a pair stream that ends
\* cleanly, the groups it yielded, put end to end, are the pairs the stream
\* delivered: none lost, doubled or moved, those before the first sentinel
\* included.
C23_GroupsLoseNothing ==
  (call \in {"Maps_next", "MultiSepMaps_next"} /\ iter.done /\ EndsCleanly(source)) =>
    GroupsConcat(outs) = PairsOf(source)

\* The same, for the streams that begin with a sentinel pair.
C23_FromFirstSentinel ==
  (call \in {"Maps_next", "MultiSepMaps_next"} /\ iter.done /\ EndsCleanly(source)
     /\ PairsOf(source) # <<>>
     /\ PairsOf(source)[1][1] \in (IF call = "Maps_next" THEN {K_file}
                                   ELSE {K_file, K_directory})) =>
    GroupsConcat(outs) = PairsOf(source)

\* C24: a grouping iterator that has seen the end of its pair stream is
\* exhausted for good: every later next() yields None and pulls no line.
C24_ExhaustedForGood ==
  [][(call \in {"Maps_next", "MultiSepMaps_next"} /\ iter.done /\ call' = call)
       => (ret' = None /\ pos' = pos /\ iter' = iter)]_vars

C24_Witness ==
  /\ call = "Maps_next" /\ iter.done /\ Len(outs) = 2
  /\ outs[1] = Some(Ok(<<<<K_file, <<"a">>>>>>)) /\ outs[2] = None
  /\ pos = 2 /\ prevPos = 2
  /\ source = <<Line(Field(K_file, <<"a">>)), Line(L_OK), Line(Field(K_file, <<"b">>))>>

\* C25: over every line source, the multi-sentinel iterator given the one key
\* k yields at every call what the single-sentinel iterator given k yields, and
\* has pulled as many lines.
C25_OneKeyMultiIsSingle ==
  op = "split_both" => output.multi = output.single

C25_Witness ==
  /\ op = "split_both"
  /\ input.lines = <<Line(Field(K_file, <<"a">>)), Line(Field(K_file, <<"b">>)),
                     Line(L_ACK)>>
  /\ output.multi[1] = [out |-> Some(Ok(<<<<K_file, <<"a">>>>>>)), pos |-> 2]
  /\ output.multi[2].out.some /\ ~output.multi[2].out.val.ok /\ output.multi[2].pos = 3

\* ---- Pairs and the response

\* Pairs::next yielded what ends a response for the consumer: None, or a
\* server error.
EndsResponse(r) == r = None \/ (r.some /\ ~r.val.ok /\ r.val.err.kind = "Server")

\* C26: Pairs buffers no line. Each call pulls one line; the calls before the
\* terminal marker of the response yield neither None nor a server error, and
\* the call that does (None for OK, the server error for ACK) has pulled the
\* lines up to that marker and no line after it. Without a marker, only the
\* end of the source yields None.
C26_PairsPullsOneResponse ==
  call = "Pairs_next" =>
    LET e == ResponseEnd(source)
    IN IF e = 0
       THEN EndsResponse(ret) => (ret = None /\ prevPos = Len(source) /\ pos = prevPos)
       ELSE prevPos < e =>
              /\ pos = prevPos + 1
              /\ EndsResponse(ret) <=> pos = e
              /\ pos = e => (ret = None <=> source[e] = Line(L_OK))

C26_Witness ==
  /\ call = "Pairs_next" /\ EndsResponse(ret) /\ ret # None
  /\ pos = 2 /\ ResponseEnd(source) = 2
  /\ Len(source) = 3 /\ source[3] = Line(Field(K_file, <<"b">>))

\* ---- grouped values

\* The values of the pairs ps[a..b].
ValuesOf(ps, a, b) == [i \in 1..(b - a + 1) |-> ps[a + i - 1][2]]
\* The spellings of the key album.
AlbumKeys == {K_album, <<"Album">>}

\* C27: from_pairs_with_sep with the lowercase sep album returns, for a stream
\* that ends cleanly, one group per pair whose key is album in any letter
\* case, in order: its key is that pair's value, its contents are the values
\* of the pairs up to the next such pair or the end; the pairs before the
\* first one are in no group. A stream that yields an error gives that error.
C27_GroupedValues ==
  op = "from_pairs_with_sep" =>
    LET ps == PairsOf(input.tags)
        n == Cardinality(SentinelPlaces(ps, AlbumKeys))
        at(k) == SentinelPlace(ps, AlbumKeys, k)
    IN IF EndsCleanly(input.tags)
       THEN /\ output.res.ok /\ Len(output.res.val) = n
            /\ \A k \in 1..n :
                 output.res.val[k] = <<ps[at(k)][2], ValuesOf(ps, at(k) + 1, at(k + 1) - 1)>>
       ELSE /\ ~output.res.ok
            /\ output.res.err.kind
                 = (IF input.tags[Len(ps) + 1].fail THEN "Io" ELSE "Server")

C27_Witness ==
  /\ op = "from_pairs_with_sep"
  /\ input.tags = <<Line(Field(<<"Title">>, <<"t">>)), Line(Field(<<"Album">>, <<"A">>)),
                    Line(Field(<<"Title">>, <<"u">>))>>
  /\ output.res = Ok(<<<<<<"A">>, <<<<"u">>>>>>>>)

\* ---- read_fields

\* A line Time: <numeral>, and the longest run of such lines a response
\* begins with.
IsTimeLine(item) == \E v \in Numerals : item = Line(Field(K_Time, <<v>>))
RECURSIVE TimeRun(_)
TimeRun(s) == IF s # <<>> /\ IsTimeLine(Head(s)) THEN 1 + TimeRun(Tail(s)) ELSE 0

\* C28: read_fields(Time) returns the parsed values of the Time pairs, in the
\* order received, when OK follows them; the first line that is something else
\* decides the error (another key: NoField(Time); ACK: the server error; a
\* value that does not parse: a parse error) and no list is returned. Nothing
\* is read past the line that decides.
C28_ReadFields ==
  op = "read_fields" =>
    LET n == TimeRun(input.fields)
        res == output.res
    IN IF n = Len(input.fields) THEN res = Err(IoError) /\ output.pos = n
       ELSE LET item == input.fields[n + 1]
            IN /\ output.pos = n + 1
               /\ IF item = Line(L_OK)
                  THEN res = Ok([i \in 1..n |-> NumeralValue(input.fields[i].text[4])])
                  ELSE /\ ~res.ok
                       /\ IF item.fail THEN res.err = IoError
                          ELSE IF item = Line(L_ACK) THEN res.err.kind = "Server"
                          ELSE IF item.text[1] = "Time" THEN res.err.kind = "Parse"
                          ELSE res.err = NoField(K_Time)

C28_Witness ==
  /\ op = "read_fields"
  /\ input.fields = <<Line(Field(K_Time, <<"10">>)), Line(Field(K_Time, <<"20">>)),
                      Line(L_OK)>>
  /\ output = [res |-> Ok(<<10, 20>>), pos |-> 3]

\* The first pair of another key ends the read with NoField.
C28_OtherKey ==
  /\ op = "read_fields"
  /\ input.fields = <<Line(Field(K_Time, <<"10">>)), Line(Field(K_file, <<"a">>)),
                      Line(L_OK)>>
  /\ output = [res |-> Err(NoField(K_Time)), pos |-> 2]

\* ---- playlist edits

\* The decimal text of a position.
PosText(p) == CASE p = 0 -> <<"0">> [] p = 5 -> <<"5">> [] p = 10 -> <<"10">>
CommandWords ==
  {<<"playlistadd">>, <<"playlistclear">>, <<"playlistmove">>, <<"playlistdelete">>}

\* C29: an EditAction serializes its fields in order and never its command
\* word: Add gives name, uri and the position if there is one; Clear gives
\* name; Move gives name, old, new; Delete gives name, pos; command() gives
\* playlistadd, playlistclear, playlistmove, playlistdelete.
C29_EditActionArguments ==
  op = "EditAction" =>
    LET a == input.action
    IN /\ output.res = Ok(UnitV)
       /\ \A i \in DOMAIN output.tokens : output.tokens[i] \notin CommandWords
       /\ a.t = "Add" =>
            /\ output.command = <<"playlistadd">>
            /\ output.tokens = IF a.opt_pos.some
                               THEN <<a.name, a.uri, PosText(a.opt_pos.val)>>
                               ELSE <<a.name, a.uri>>
       /\ a.t = "Clear" =>
            (output.command = <<"playlistclear">> /\ output.tokens = <<a.name>>)
       /\ a.t = "Move" =>
            /\ output.command = <<"playlistmove">>
            /\ output.tokens = <<a.name, PosText(a.old), PosText(a.new)>>
       /\ a.t = "Delete" =>
            /\ output.command = <<"playlistdelete">>
            /\ output.tokens = <<a.name, PosText(a.pos)>>

C29_Witness ==
  /\ op = "EditAction"
  /\ input.action = EditMove(<<"a b">>, 5, 10)
  /\ output.tokens = <<<<"a b">>, <<"5">>, <<"10">>>>
  /\ output.command = <<"playlistmove">>

\* ---- audio format

\* The bytes of a number n.
Big(n) == Carry(<<>>, n)
\* The text is dsd<N>:<C> with N a u32 and C a u8; the two numbers.
DsdN(s) == uint_from_str(SubSeq(str_split(s, <<>>)[1], 4, Len(str_split(s, <<>>)[1])), 4, "N")
DsdC(s) == uint_from_str(str_split(s, <<>>)[2], 1, "C")
IsDsdText(s) ==
  /\ Len(s) >= 3 /\ SubSeq(s, 1, 3) = <<"d", "s", "d">>
  /\ Len(str_split(s, <<>>)) = 2 /\ DsdN(s).ok /\ DsdC(s).ok

\* C30: for a text dsd<N>:<C> whose N parses as a u32, from_str returns the
\* rate 44100 * N / 8, bits 1 and chans C.
C30_DsdRate ==
  (op = "AudioFormat_from_str" /\ IsDsdText(input.audio)) =>
    output = Ok([rate |-> BigDiv(BigTimes(DsdN(input.audio).val, 44100), 8),
                 bits |-> <<1>>, chans |-> DsdC(input.audio).val])

\* The same for the multipliers up to 97391, the largest whose product with
\* 44100 is below 2^32.
C30_DsdRateInRange ==
  (op = "AudioFormat_from_str" /\ IsDsdText(input.audio)
     /\ Len(BigTimes(DsdN(input.audio).val, 44100)) <= 4) =>
    output = Ok([rate |-> BigDiv(BigTimes(DsdN(input.audio).val, 44100), 8),
                 bits |-> <<1>>, chans |-> DsdC(input.audio).val])

\* dsd64:2 gives the rate 352800.
C30_Dsd64 ==
  /\ op = "AudioFormat_from_str"
  /\ input.audio = <<"d", "s", "d", "6", "4", ":", "2">>
  /\ output = Ok([rate |-> Big(352800), bits |-> <<1>>, chans |-> Big(2)])

\* dsd97392:2 in a build without overflow checks: the low 32 bits of the
\* product, divided by 8.
C30_Wrapped ==
  /\ op = "AudioFormat_from_str"
  /\ input.audio = <<"d", "s", "d", "9", "7", "3", "9", "2", ":", "2">>
  /\ output = Ok([rate |-> Big(2488), bits |-> <<1>>, chans |-> Big(2)])

====
